---- MODULE Spec2Model ----
(***************************************************************************)
(* Dive computer (embedded-rust-bootcamp): the DiveComputer state machine  *)
(* of src/src/lib.rs driven by the two interrupt-driven entry points,      *)
(* src/src/bin/rtic.rs (RTIC tasks with priorities) and                    *)
(* src/src/bin/interrupts.rs (raw interrupt service routines).             *)
(*                                                                         *)
(* Time is the microsecond timer counter.  The model moves it in steps of  *)
(* TimeStep, so every comparison of the code against DEBOUNCE_TIME and     *)
(* REPEAT_TIME is met below, at and above its boundary.                    *)
(***************************************************************************)
EXTENDS Integers, Sequences, FiniteSets, TLC

VARIABLES
    backend,         \* "rtic" (bin/rtic.rs) or "irq" (bin/interrupts.rs)
    now,             \* the timer counter, microseconds
    dc,              \* the shared DiveComputer
    pc,              \* position of each handler in its body, "idle" = not active
    stack,           \* active handlers, the last one is executing, the others preempted
    ready,           \* expired periodic activations in order of expiry
    due,             \* next scheduled expiry of each periodic task, or NoAlarm
    edge,            \* per button: EdgeLow interrupt status
    level,           \* per button: LevelLow interrupt status
    held,            \* per button: the button is physically held down
    bidx,            \* button_handler: index of the handle_button! expansion being executed
    trigger_time,    \* button_handler local
    time_waited,     \* button_handler local
    triggered,       \* button_handler local
    bkind,           \* button_handler: the trigger kind whose command is being dispatched
    last_triggered,  \* button_handler static LAST_TRIGGERED / local last_triggered
    presses,         \* number of button presses so far (bounded environment);
                     \* in the "dive" environment, of operations applied
    polled,          \* the button handler has run since the counter last advanced
    buffer,          \* ui_output: the EDT line of the text in its buffer
    mainpc,          \* interrupts.rs main: index in MainBody of its next step
    taken,           \* interrupts.rs: the handlers whose static holds the
                     \* resources taken from their GLOBAL_ cell
    lock,            \* the handler inside lock(..) / interrupt::free(..) on the
                     \* DiveComputer, or "none"
    scenario,        \* which environment drives the run: "sched", "edges" or "hold"
    hist             \* observations of the run, read by the properties only

vars == <<backend, now, dc, pc, stack, ready, due, edge, level, held, bidx,
          trigger_time, time_waited, triggered, bkind, last_triggered, presses,
          polled, buffer, mainpc, taken, lock, scenario, hist>>

----------------------------------------------------------------------------
(* Program constants *)

REPEAT_TIME == 200000
DEBOUNCE_TIME == 100000
UI_TASK_INTERVAL == 100000
LOGIC_TICK_INTERVAL == 500000
TIME_TICK_MS == 500

MAX_DEPTH == 40000
MAX_SAFE_ASCEND_RATE == 15
MAX_AIR == 200000
AIR_INCREMENT == 500
RESPIRATORY_MINUTE_VOLUME_CL == 1200
RESPIRATORY_SECOND_VOLUME_CL == RESPIRATORY_MINUTE_VOLUME_CL \div 60
I32_MAX == 2147483647

(* Bounds of the model: the number of TimeSteps the counter advances and the
   number of button presses, per environment *)
MaxTicks == 4
MaxPresses == 1
EdgeTicks == 7
EdgePresses == 2
HoldTicks == 16
HoldPresses == 1
LivePresses == 1
MaxOps == 3
MaxDepthM == 45
WrapTicks == 3
WrapPresses == 2
BootTicks == 6
BootPresses == 1
RenderSeconds == 6

TimeStep == DEBOUNCE_TIME \div 2
NoAlarm == 0 - 1

Buttons == {"A", "B", "X", "Y"}
ButtonOrder == <<"A", "B", "X", "Y">>
Periodic == {"ui_output", "dive_tick"}
Handlers == Periodic \cup {"button_handler"}

----------------------------------------------------------------------------
(* DiveComputer, src/src/lib.rs *)

\* Rust's integer division truncates toward zero
TruncDiv(a, b) == IF a >= 0 THEN a \div b ELSE -((-a) \div b)

Clamp(x, lo, hi) == IF x < lo THEN lo ELSE IF x > hi THEN hi ELSE x

\* Variant: plain subtraction
PlainSub(a, b) == a - b

SaturatingSub(a, b) == IF a >= b THEN a - b ELSE 0

DiveComputerNew ==
    [unit |-> "Metric", air |-> 5000, depth |-> 0, edt |-> 0, rate |-> 0]

gas_rate_in_cl(depth_in_m) ==
    LET ambient_pressure_in_cb == 100 + (10 * depth_in_m)
    IN  (RESPIRATORY_SECOND_VOLUME_CL * ambient_pressure_in_cb) \div 100

\* Variant: the loop runs over 1..depth_in_m
RECURSIVE gas_to_surface_from_one(_)
gas_to_surface_from_one(depth_in_m) ==
    LET secs_to_ascend_1m == 60 \div MAX_SAFE_ASCEND_RATE
    IN  IF depth_in_m = 0
        THEN 0
        ELSE gas_to_surface_from_one(depth_in_m - 1)
                 + gas_rate_in_cl(depth_in_m) * secs_to_ascend_1m

\* for depth in 0..depth_in_m { gas += gas_rate_in_cl(depth) * secs_to_ascend_1m }
RECURSIVE gas_to_surface_in_cl(_)
gas_to_surface_in_cl(depth_in_m) ==
    LET secs_to_ascend_1m == 60 \div MAX_SAFE_ASCEND_RATE
    IN  IF depth_in_m = 0
        THEN 0
        ELSE gas_to_surface_in_cl(depth_in_m - 1)
                 + gas_rate_in_cl(depth_in_m - 1) * secs_to_ascend_1m

\* Variant: the ascent rate is tested before the air
get_alarm_rate_first(d) ==
    IF d.rate < -MAX_SAFE_ASCEND_RATE THEN "Medium"
    ELSE IF gas_to_surface_in_cl(d.depth \div 1000) > d.air THEN "High"
    ELSE IF d.depth > MAX_DEPTH THEN "Low"
    ELSE "None"

get_alarm(d) ==
    IF gas_to_surface_in_cl(d.depth \div 1000) > d.air THEN "High"
    ELSE IF d.rate < -MAX_SAFE_ASCEND_RATE THEN "Medium"
    ELSE IF d.depth > MAX_DEPTH THEN "Low"
    ELSE "None"

\* Variant: the tank is filled at any depth
fill_air_at_depth(d) ==
    [d EXCEPT !.air = IF d.air + AIR_INCREMENT > MAX_AIR
                      THEN MAX_AIR ELSE d.air + AIR_INCREMENT]

fill_air(d) ==
    IF d.depth = 0
    THEN [d EXCEPT !.air = IF d.air + AIR_INCREMENT > MAX_AIR
                           THEN MAX_AIR ELSE d.air + AIR_INCREMENT]
    ELSE d

\* Variant: the rate is not limited
increase_rate_unlimited(d) == [d EXCEPT !.rate = d.rate + 1]

increase_rate(d) ==
    [d EXCEPT !.rate = IF d.rate + 1 > 50 THEN 50 ELSE d.rate + 1]

\* Variant: the rate is decreased at the surface as well
decrease_rate_at_surface(d) ==
    [d EXCEPT !.rate = IF d.rate - 1 < -50 THEN -50 ELSE d.rate - 1]

decrease_rate(d) ==
    IF d.depth > 0
    THEN [d EXCEPT !.rate = IF d.rate - 1 < -50 THEN -50 ELSE d.rate - 1]
    ELSE d

\* Variant: the unit is set to Imperial
toggle_unit_imperial(d) == [d EXCEPT !.unit = "Imperial"]

toggle_unit(d) ==
    [d EXCEPT !.unit = IF d.unit = "Imperial" THEN "Metric" ELSE "Imperial"]

\* MicrosDurationU32::into_rate(): whole ticks per second
into_rate(interval_us) == 1000000 \div interval_us

\* change_depth divides by zero: into_rate() of no ticks, or the division by
\* 60 * hz with hz = 0 for an interval above one second
divides_by_zero(interval_us) ==
    IF interval_us = 0 THEN TRUE ELSE into_rate(interval_us) = 0

\* MicrosDurationU32::convert() to whole seconds (integer division)
convert_secs(interval_us) == interval_us \div 1000000

\* self.rate * 1000 / (60 * hz.raw() as i32)
rate_in_mm(d, interval_us) == TruncDiv(d.rate * 1000, 60 * into_rate(interval_us))

\* (self.depth as i32) + rate_in_mm_per_interval leaves the i32 range
\* (depth is at most i32::MAX, so only upward)
depth_overflows(d, interval_us) ==
    /\ rate_in_mm(d, interval_us) > 0
    /\ d.depth > I32_MAX - rate_in_mm(d, interval_us)

\* The i32 sum: without overflow checks it wraps, sum - 2^32, which is below 0
depth_sum(d, interval_us) ==
    IF depth_overflows(d, interval_us)
    THEN (((d.depth - I32_MAX) + (rate_in_mm(d, interval_us) - 1)) - I32_MAX) - 1
    ELSE d.depth + rate_in_mm(d, interval_us)

\* Variant: the air is consumed at the depth before the move
change_depth_air_before(d, interval_us) ==
    LET hz == into_rate(interval_us)
        depth == Clamp(depth_sum(d, interval_us), 0, I32_MAX)
    IN  IF depth = 0
        THEN [d EXCEPT !.depth = 0, !.rate = 0]
        ELSE [d EXCEPT !.depth = depth,
                       !.edt = d.edt + convert_secs(interval_us),
                       !.air = SaturatingSub(d.air, gas_rate_in_cl(d.depth \div 1000) \div hz)]

change_depth(d, interval_us) ==
    LET hz == into_rate(interval_us)
        depth == Clamp(depth_sum(d, interval_us), 0, I32_MAX)
    IN  IF depth = 0
        THEN [d EXCEPT !.depth = 0, !.rate = 0]
        ELSE [d EXCEPT !.depth = depth,
                       !.edt = d.edt + convert_secs(interval_us),
                       !.air = SaturatingSub(d.air, gas_rate_in_cl(depth \div 1000) \div hz)]

\* The operations of DiveComputer by name; change_depth takes the interval
Operation(op, arg, d) ==
    CASE op = "fill_air" -> fill_air(d)
      [] op = "increase_rate" -> increase_rate(d)
      [] op = "decrease_rate" -> decrease_rate(d)
      [] op = "toggle_unit" -> toggle_unit(d)
      [] op = "change_depth" -> change_depth(d, arg)

RECURSIVE Repeat(_, _, _, _)
\* The state after n calls of one operation from state d
Repeat(op, arg, n, d) ==
    CASE n = 0 -> d
      [] n = 1 -> Operation(op, arg, d)
      [] OTHER -> LET half == Repeat(op, arg, n \div 2, d)
                  IN  IF half = half   \* evaluated before the second half is entered
                      THEN Repeat(op, arg, n - (n \div 2), half)
                      ELSE d

----------------------------------------------------------------------------
(* impl Display for DiveComputer: the EDT line.  A text is a sequence of
   characters *)

DigitChars == <<"0", "1", "2", "3", "4", "5", "6", "7", "8", "9">>

RECURSIVE Decimal(_)
\* An unsigned integer formatted with {}
Decimal(n) ==
    IF n < 10
    THEN <<DigitChars[n + 1]>>
    ELSE Decimal(n \div 10) \o <<DigitChars[(n % 10) + 1]>>

RECURSIVE PadLeft(_, _, _)
\* {:9} and {:0>2}: a minimum width, filled on the left; a longer text is
\* written in full
PadLeft(text, width, fill) ==
    IF Len(text) >= width THEN text ELSE PadLeft(<<fill>> \o text, width, fill)

\* SecsDurationU64::to_hours(), to_minutes(), to_secs(): the whole duration
\* in whole hours, in whole minutes, in seconds
to_hours(edt) == edt \div 3600

to_minutes(edt) == edt \div 60

to_secs(edt) == edt

\* writeln!(f, "EDT: {:9}:{:0>2}:{:0>2}", hours, minutes, seconds)
fmt_edt(d) ==
    LET hours == to_hours(d.edt)
        minutes == to_minutes(d.edt)
        seconds == to_secs(d.edt)
    IN  <<"E", "D", "T", ":", " ">>
            \o PadLeft(Decimal(hours), 9, " ") \o <<":">>
            \o PadLeft(Decimal(minutes), 2, "0") \o <<":">>
            \o PadLeft(Decimal(seconds), 2, "0")

----------------------------------------------------------------------------
(* Scheduling: priorities, preemption and the critical section *)

Range(s) == {s[i] : i \in DOMAIN s}

Top == stack[Len(stack)]

RemoveFirst(s, x) ==
    LET i == CHOOSE k \in DOMAIN s : s[k] = x /\ \A j \in 1..(k - 1) : s[j] # x
    IN  [k \in 1..(Len(s) - 1) |-> IF k < i THEN s[k] ELSE s[k + 1]]

\* Variant: the button interrupt above the periodic tasks
PriorityButtonHighest(h) ==
    IF h = "button_handler" THEN 3 ELSE 2

\* rtic.rs: ui_output and dive_tick are declared priority = 2, button_handler
\* declares none and runs at the framework's default, 1.
\* interrupts.rs never sets an NVIC priority: the three ISRs are equal.
Priority(h) ==
    IF backend = "rtic"
    THEN IF h \in Periodic THEN 2 ELSE 1
    ELSE 1

\* Variant: a lock that does not raise the running priority
CeilingNotRaised == Priority("button_handler")

\* The priority a handler runs at inside its DiveComputer critical section:
\* rtic.rs lock() raises to the resource ceiling, the highest priority of the
\* tasks sharing dive_computer; interrupts.rs interrupt::free masks every
\* interrupt, which is above every handler.
Ceiling ==
    IF backend = "rtic"
    THEN 2
    ELSE 3

CurrentPriority ==
    IF stack = <<>>
    THEN 0
    ELSE IF pc[Top] = "cs" /\ Ceiling > Priority(Top)
         THEN Ceiling
         ELSE Priority(Top)

\* Variant: the screen's timer interrupt has the lowest number
IrqNumberScreenFirst(h) ==
    CASE h = "ui_output" -> 0
      [] h = "dive_tick" -> 1
      [] h = "button_handler" -> 13

\* Exception numbers of interrupts.rs: TIMER_IRQ_0 (dive tick), TIMER_IRQ_1
\* (screen), IO_IRQ_BANK0 (buttons); the lowest pending number is served first.
IrqNumber(h) ==
    CASE h = "dive_tick" -> 0
      [] h = "ui_output" -> 1
      [] h = "button_handler" -> 13

Pending(h) ==
    IF h \in Periodic
    THEN h \in Range(ready)
    ELSE \E b \in Buttons : edge[b] \/ level[b]

IndexIn(s, x) == CHOOSE k \in DOMAIN s : s[k] = x /\ \A j \in 1..(k - 1) : s[j] # x

\* h is served before g when both are pending at the same priority
Before(h, g) ==
    IF backend = "rtic"
    THEN IndexIn(ready, h) < IndexIn(ready, g)
    ELSE IrqNumber(h) < IrqNumber(g)

\* Variant: the interrupts are unmasked before the critical section of main
MainBodyUnmaskFirst ==
    <<"unmask_button_handler", "unmask_dive_tick", "unmask_ui_output", "free",
      "store_button_handler", "store_dive_computer", "store_ui_output",
      "store_dive_tick", "unfree", "wfi">>

\* interrupts.rs main from its critical section on: interrupt::free is
\* entered, the four GLOBAL_ cells are filled (buttons and timer, dive
\* computer, led / screen / alarm1, alarm0), IO_IRQ_BANK0, TIMER_IRQ_0 and
\* TIMER_IRQ_1 are unmasked, the critical section is left, and main waits
\* for interrupts
MainBody ==
    <<"free", "store_button_handler", "store_dive_computer", "store_ui_output",
      "store_dive_tick", "unmask_button_handler", "unmask_dive_tick",
      "unmask_ui_output", "unfree", "wfi">>

AtWfi == mainpc = Len(MainBody)

\* main has executed the step
Done(step) == IndexIn(MainBody, step) < mainpc

\* rtic.rs: init returns the resources and the framework starts the tasks
Stored(c) == backend = "rtic" \/ Done("store_" \o c)

AllStored == \A c \in Handlers \cup {"dive_computer"} : Stored(c)

Unmasked(h) == backend = "rtic" \/ Done("unmask_" \o h)

\* main is inside interrupt::free: no interrupt is taken
MainMasked == backend = "irq" /\ Done("free") /\ ~Done("unfree")

\* The one-time take of the handler's resources: they are in its static
\* from an earlier run, or in its GLOBAL_ cell now
Holds(h) == h \in taken \/ Stored(h)

CanStart(h) ==
    /\ pc[h] = "idle"
    /\ Pending(h)
    /\ Unmasked(h)
    /\ ~MainMasked
    /\ Priority(h) > CurrentPriority
    /\ \A g \in Handlers \ {h} :
          (Pending(g) /\ pc[g] = "idle" /\ Unmasked(g))
              => \/ Priority(g) < Priority(h)
                 \/ Priority(g) = Priority(h) /\ Before(h, g)

\* The interval a periodic task re-arms itself with
Period(t) ==
    IF backend = "rtic"
    THEN IF t = "ui_output" THEN UI_TASK_INTERVAL ELSE LOGIC_TICK_INTERVAL
    ELSE IF t = "ui_output" THEN TIME_TICK_MS * 500 ELSE TIME_TICK_MS * 1000

\* The interval handed to change_depth, microseconds
TickIntervalIn(bk) ==
    IF bk = "rtic" THEN LOGIC_TICK_INTERVAL ELSE TIME_TICK_MS * 1000

TickInterval == TickIntervalIn(backend)

\* Variant: the next activation is scheduled as the last statement
BodyRearmLast(t) ==
    IF t = "ui_output" THEN <<"enter", "cs", "exit", "rearm">>
                       ELSE <<"enter", "cs", "rearm">>

\* Order of the steps of a periodic task's body: re-arm (spawn_after /
\* alarm.schedule), the work before the critical section, the critical
\* section on the DiveComputer, and for the screen task the drawing after it
Body(t) ==
    IF t = "ui_output"
    THEN <<"rearm", "enter", "cs", "exit">>
    ELSE <<"rearm", "enter", "cs">>

FirstLabel(t) == Body(t)[1]

NextLabel(t, l) ==
    LET i == IndexIn(Body(t), l)
    IN  IF i < Len(Body(t)) THEN Body(t)[i + 1] ELSE "idle"

Pop == SubSeq(stack, 1, Len(stack) - 1)

\* Variant: the critical section is not left
LeaveNever(h) == h

\* The closure handed to lock(..) / interrupt::free(..) ends: the priority is
\* restored, the interrupts are enabled again
Leave(h) == "none"

Running(h) == stack # <<>> /\ Top = h

----------------------------------------------------------------------------
(* The button handler's filter, handle_button! *)

\* Variant: the bindings of X and Y exchanged
CommandSwapped(b, d) ==
    CASE b = "A" -> fill_air(d)
      [] b = "B" -> toggle_unit(d)
      [] b = "X" -> decrease_rate(d)
      [] b = "Y" -> increase_rate(d)

\* Button-to-command bindings of the four handle_button! expansions
Command(b, d) ==
    CASE b = "A" -> fill_air(d)
      [] b = "B" -> toggle_unit(d)
      [] b = "X" -> increase_rate(d)
      [] b = "Y" -> decrease_rate(d)

\* Variant: the time since the counter started, not since the last trigger
TimeWaitedSinceStart(t, last) == t

\* u32 values are held as their i32 bit patterns (the value itself below
\* 2^31, the value - 2^32 from there on): a <= b on the u32 values
U32Leq(a, b) == IF (a < 0) = (b < 0) THEN a <= b ELSE a >= 0

\* a - b on the u32 values, for a > b; a difference of 2^31 or more is given
\* as i32::MAX, far above every window it is compared with
U32Sub(a, b) == IF (a < 0) = (b < 0) THEN a - b ELSE I32_MAX

\* let time_waited = if trigger_time <= last { 0 } else { trigger_time - last }
\* on the u64 Instant of monotonics::now() in rtic.rs, on the u32 of
\* timer.get_counter_low() in interrupts.rs
TimeWaitedIn(bk, t, last) ==
    IF bk = "irq"
    THEN IF U32Leq(t, last) THEN 0 ELSE U32Sub(t, last)
    ELSE IF t <= last THEN 0 ELSE t - last

TimeWaited(t, last) == TimeWaitedIn(backend, t, last)

\* Variant: LevelLow looked at before EdgeLow
KindSeenLevelFirst(b) ==
    IF level[b] THEN "level" ELSE IF edge[b] THEN "edge" ELSE "none"

\* Which trigger kind an expansion evaluates: EdgeLow if pending, else LevelLow
\* if pending, else none
KindSeen(b) ==
    IF edge[b] THEN "edge" ELSE IF level[b] THEN "level" ELSE "none"

\* Variants: a trigger accepted at the window itself
AcceptsEdgeAtWindow(kind, waited) ==
    \/ kind = "edge" /\ waited >= DEBOUNCE_TIME
    \/ kind = "level" /\ waited > REPEAT_TIME

AcceptsLevelAtWindow(kind, waited) ==
    \/ kind = "edge" /\ waited > DEBOUNCE_TIME
    \/ kind = "level" /\ waited >= REPEAT_TIME

\* The window test of the kind evaluated
Accepts(kind, waited) ==
    CASE kind = "edge" -> waited > DEBOUNCE_TIME
      [] kind = "level" -> waited > REPEAT_TIME
      [] OTHER -> FALSE

\* Variant: the timestamp of the last trigger is never stored
NewLastTriggeredNever(trig, t, last) == last

\* Variant: the timestamp is stored by every invocation
NewLastTriggeredAlways(trig, t, last) == t

\* if triggered { last_triggered = trigger_time }
NewLastTriggered(trig, t, last) == IF trig THEN t ELSE last

\* Variant: the next expiry relative to the expiry that started the activation
NextDueFromExpiry(t) == hist.dueOf[t] + Period(t)

\* Variant: the task returns without scheduling its next activation
NextDueNever(t) == NoAlarm

\* spawn_after(interval, ..) / alarm.schedule(..): one period after the
\* current counter value
NextDue(t) == now + Period(t)

----------------------------------------------------------------------------
(* The "dive" environment applies the operations of DiveComputer one by one,
   as the handlers call them, to states the program reaches *)

\* The intervals change_depth is applied with: the one of both programs
\* (500 ms), a short one and a whole second
Intervals == {0, TimeStep, TIME_TICK_MS * 1000, 2 * TIME_TICK_MS * 1000,
              4 * TIME_TICK_MS * 1000}

\* A dive: some calls of increase_rate, then some ticks
Dive(rate, ticks) ==
    Repeat("change_depth", TIME_TICK_MS * 1000, ticks,
           Repeat("increase_rate", 0, rate, DiveComputerNew))

\* A dive below MAX_DEPTH with a full tank
DeepDive ==
    Repeat("change_depth", TIME_TICK_MS * 1000, 97,
           Repeat("increase_rate", 0, 50,
                  Repeat("fill_air", 0, 391, DiveComputerNew)))

\* States the program reaches from DiveComputer::new(): the new state; the
\* tank filled to one and to two calls of fill_air below full, from 5000 and
\* after a short dive; rate 10 at the surface; short dives at several rates,
\* one of them up again to 8 mm; dives below MAX_DEPTH, with the tank of
\* new(), with a full tank and with that on a fast ascent; and, after long
\* descents, an empty tank at depth and a depth one tick of rate 50 below
\* i32::MAX
DiveStarts ==
    { DiveComputerNew,
      Repeat("fill_air", 0, 389, DiveComputerNew),
      Repeat("fill_air", 0, 389,
             Repeat("change_depth", TIME_TICK_MS * 1000, 1,
                    Repeat("decrease_rate", 0, 2, Dive(1, 1)))),
      Dive(10, 0),
      Dive(1, 1),
      Dive(50, 3),
      Repeat("decrease_rate", 0, 60, Dive(50, 3)),
      Dive(50, 97),
      DeepDive,
      Repeat("decrease_rate", 0, 66, DeepDive),
      [DiveComputerNew EXCEPT !.depth = 30000, !.rate = 0 - 20, !.air = 5],
      [DiveComputerNew EXCEPT !.depth = I32_MAX - 400, !.rate = 50, !.air = 0] }

----------------------------------------------------------------------------
(* Initial state: the state in which main / init hands over to the handlers.
   The counter is taken to start there. *)

\* As far back as the filter can tell a trigger apart
FilterMemory == REPEAT_TIME + TimeStep

\* The "wrap" environment is the "edges" environment WrapLead before the low
\* 32 bits of the counter wrap around; the counter is held as the i32 bit
\* pattern of its low word, so the wrap is the step from below 0 to 0.
\* A command was dispatched FilterMemory before
WrapLead == 2 * TimeStep

StartTime(sc) ==
    CASE sc = "live" -> FilterMemory
      [] sc = "wrap" -> 0 - WrapLead
      [] OTHER -> 0

StartLastTriggered(sc) ==
    CASE sc = "wrap" -> (0 - WrapLead) - FilterMemory
      [] OTHER -> 0

NoObs == [b |-> "none", kind |-> "none", waited |-> 0, fired |-> FALSE]

\* A diver at rest under water: one second of descent at rate 1, then the
\* rate back to 0.  change_depth counts elapsed time below the surface only
Submerged ==
    Repeat("decrease_rate", 0, 1,
           Repeat("change_depth", 1000000, 1,
                  Repeat("increase_rate", 0, 1, DiveComputerNew)))

\* The state after edt seconds of a dive, change_depth called once a second
AfterSeconds(edt) == Repeat("change_depth", 1000000, edt - 1, Submerged)

\* Dives that are about to complete their first minute, their first hour,
\* and a minute of their second hour, and one that has just begun
RenderStarts == {AfterSeconds(edt) : edt \in {1, 57, 3597, 3657}}

InitWith(sc) ==
    /\ scenario = sc
    /\ backend \in CASE sc \in {"dive", "render"} -> {"rtic"}
                     [] sc = "boot" -> {"irq"}
                     [] OTHER -> {"rtic", "irq"}
    /\ now = StartTime(sc)
    /\ dc \in CASE sc = "dive" -> DiveStarts
                [] sc = "render" -> RenderStarts
                [] OTHER -> {DiveComputerNew}
    /\ pc = [h \in Handlers |-> "idle"]
    /\ stack = <<>>
       \* rtic.rs init spawns ui_output then dive_tick; interrupts.rs schedules
       \* alarm0 then alarm1 10 us ahead, both have fired when the IRQs are unmasked
    /\ ready = IF backend = "rtic" THEN <<"ui_output", "dive_tick">>
                                   ELSE <<"dive_tick", "ui_output">>
    /\ due = [t \in Periodic |-> NoAlarm]
    /\ edge = [b \in Buttons |-> FALSE]
    /\ level = [b \in Buttons |-> FALSE]
    /\ held = [b \in Buttons |-> FALSE]
    /\ bidx = 0
    /\ trigger_time = 0
    /\ time_waited = 0
    /\ triggered = FALSE
    /\ bkind = "none"
    /\ last_triggered = StartLastTriggered(sc)
    /\ presses = 0
    /\ polled = FALSE
    /\ lock = "none"
    /\ buffer = <<>>
    /\ mainpc = IF sc = "boot" THEN 1 ELSE Len(MainBody)
    /\ taken = IF backend = "rtic" THEN Handlers ELSE {}
    /\ hist = [rearms |-> [t \in Periodic |-> 0],     \* re-arms of each task so far
               dueOf |-> [t \in Periodic |-> 0],      \* due time of its latest activation
               rearmAt |-> [t \in Periodic |-> 0],    \* counter value at its latest re-arm
               obs |-> NoObs,                         \* the latest trigger evaluation
               log |-> <<>>,                          \* the edge evaluations, in order
               lastFire |-> StartLastTriggered(sc),                        \* entry time of the latest invocation that dispatched
               curFired |-> FALSE,                    \* the current invocation has dispatched
               entryTime |-> 0,                       \* counter value at the latest handler entry
               entryEdge |-> {},                      \* buttons with EdgeLow set at that entry
               entryLevel |-> {},                     \* buttons with LevelLow set at that entry
               cleared |-> {},                        \* flags cleared by that invocation
               applied |-> {},                        \* buttons whose command it has run
               twice |-> FALSE,                       \* it has run one button's command twice
               touched |-> {},                        \* buttons pressed or released during it
               pressAt |-> [b \in Buttons |-> NoAlarm], \* counter value when the button went down
               holdDisp |-> [b \in Buttons |-> 0],    \* dispatches of a held button within 3 * REPEAT_TIME
               holdEdge |-> [b \in Buttons |-> FALSE], \* the edge that began the hold was dispatched
               holdClean |-> [b \in Buttons |-> TRUE], \* no other button was dispatched during the hold
               own |-> [b \in Buttons |-> 0],         \* entry time of the latest dispatch of each button
               op |-> "none",                         \* the latest DiveComputer operation ("dive")
               arg |-> 0,                             \* its interval, for change_depth
               pre |-> DiveComputerNew,               \* the state it was applied to
               overtook |-> FALSE,                    \* a periodic task started ahead of one pending longer
               shown |-> 0,                           \* elapsed time, seconds, when the buffer was written
               emptyRun |-> FALSE,                    \* a handler has run without its resources
               oLast |-> StartLastTriggered(sc),      \* last_triggered of the other backend on the same events ("wrap")
               oWaited |-> 0,                         \* its time_waited
               oTrig |-> FALSE,                       \* its triggered
               oDc |-> DiveComputerNew]               \* its DiveComputer

Init == InitWith("sched")

InitEdges == InitWith("edges")

InitHold == InitWith("hold")

InitLive == InitWith("live")

InitDive == InitWith("dive")

InitWrap == InitWith("wrap")

InitBoot == InitWith("boot")

InitRender == InitWith("render")

TickBound ==
    CASE scenario = "sched" -> MaxTicks
      [] scenario = "edges" -> EdgeTicks
      [] scenario = "hold" -> HoldTicks
      [] scenario = "live" -> 0
      [] scenario = "dive" -> 0
      [] scenario = "wrap" -> WrapTicks
      [] scenario = "boot" -> BootTicks
      [] scenario = "render" -> 0

PressBound ==
    CASE scenario = "sched" -> MaxPresses
      [] scenario = "edges" -> EdgePresses
      [] scenario = "hold" -> HoldPresses
      [] scenario = "live" -> LivePresses
      [] scenario = "dive" -> MaxOps
      [] scenario = "wrap" -> WrapPresses
      [] scenario = "boot" -> BootPresses
      [] scenario = "render" -> RenderSeconds

\* The "wrap" environment is an "edges" environment
Watch(sc) == scenario = sc \/ (sc = "edges" /\ scenario = "wrap")

\* The other backend on the same timeline of events, followed in hist
Other == IF backend = "rtic" THEN "irq" ELSE "rtic"

ShadowEntry(h) ==
    IF scenario = "wrap"
    THEN [h EXCEPT !.oWaited = TimeWaitedIn(Other, now, h.oLast), !.oTrig = FALSE]
    ELSE h

ShadowTrigger(h, b, k) ==
    IF scenario = "wrap" /\ Accepts(k, h.oWaited)
    THEN [h EXCEPT !.oDc = Command(b, @), !.oTrig = TRUE]
    ELSE h

ShadowFinish(h) ==
    IF scenario = "wrap"
    THEN [h EXCEPT !.oLast = NewLastTriggered(h.oTrig, trigger_time, @)]
    ELSE h

ShadowTick(h) ==
    IF scenario = "wrap"
    THEN [h EXCEPT !.oDc = change_depth(@, TickIntervalIn(Other))]
    ELSE h

\* The buttons the environment presses: all four, two of them in the long
\* "hold" environment and in the endless "live" environment
Pressable ==
    CASE Watch("hold") -> {"B", "X"}
      [] Watch("live") -> {"B", "Y"}
      [] OTHER -> Buttons

\* The "live" environment runs without end: it keeps the times relative to the
\* current counter value, which stays at FilterMemory, and remembers the last
\* trigger only as far back as the filter can tell apart
Elapse(t) == IF t - TimeStep < 0 THEN 0 ELSE t - TimeStep

----------------------------------------------------------------------------
(* Environment: the timer and the buttons *)

\* The timer counter advances by one TimeStep.  Handlers are served without
\* delay and run to their end within the step; only the drawing of the screen
\* after ui_output's critical section may take longer ("sched" environment).
\* So the counter advances while the processor waits for an interrupt, or draws.
Busy ==
    /\ stack # <<>>
    /\ ~(Watch("sched") /\ Top = "ui_output" /\ pc[Top] = "exit")

\* Button events arrive at any point of the handlers' execution in the "sched"
\* environment; the longer "edges" and "hold" environments let them arrive
\* between handler runs only, and a press of the "edges" environment is short:
\* the button is up again before the counter advances
Quiet ==
    /\ stack = <<>>
    /\ \A t \in Periodic : ~CanStart(t)
    /\ CanStart("button_handler") => polled

ButtonsFree == Watch("sched") \/ Quiet

Tick ==
    /\ Watch("live") \/ now < TickBound * TimeStep
    /\ AtWfi
    /\ \A t \in Periodic : due[t] = NoAlarm \/ due[t] > now
    /\ ~Busy
    /\ \A t \in Periodic : ~CanStart(t)
    /\ CanStart("button_handler") => polled
    /\ \A b \in Buttons : held[b] => ~Watch("edges")
    /\ level' = [b \in Buttons |-> level[b] \/ held[b]]
    /\ IF Watch("live")
       THEN /\ due' = [t \in Periodic |->
                          IF due[t] = NoAlarm THEN NoAlarm ELSE due[t] - TimeStep]
            /\ last_triggered' = Elapse(last_triggered)
            /\ UNCHANGED now
       ELSE /\ now' = now + TimeStep
            /\ UNCHANGED <<due, last_triggered>>
    /\ polled' = FALSE
    /\ UNCHANGED <<buffer, mainpc, taken, lock, backend, dc, pc, stack, ready, edge, held, bidx,
                   trigger_time, time_waited, triggered, bkind, presses,
                   scenario, hist>>

\* A scheduled expiry is reached: the activation becomes pending
AlarmFires(t) ==
    /\ due[t] # NoAlarm
    /\ due[t] <= now
    /\ ready' = Append(ready, t)
    /\ due' = [due EXCEPT ![t] = NoAlarm]
    /\ hist' = IF Watch("sched") THEN [hist EXCEPT !.dueOf[t] = due[t]] ELSE hist
    /\ UNCHANGED <<buffer, mainpc, taken, lock, backend, now, dc, pc, stack, edge, level, held, bidx,
                   trigger_time, time_waited, triggered, bkind, last_triggered, presses, polled,
                   scenario>>

\* A button goes down: its pin raises EdgeLow and LevelLow
Press(b) ==
    /\ ButtonsFree
    /\ b \in Pressable
    /\ ~held[b]
    /\ presses < PressBound
    /\ held' = [held EXCEPT ![b] = TRUE]
    /\ edge' = [edge EXCEPT ![b] = TRUE]
    /\ level' = [level EXCEPT ![b] = TRUE]
    /\ presses' = presses + 1
    /\ polled' = FALSE
    /\ hist' = CASE Watch("hold") ->
                        [hist EXCEPT !.pressAt[b] = now, !.holdDisp[b] = 0,
                                     !.holdEdge[b] = FALSE, !.holdClean[b] = TRUE]
                 [] Watch("sched") /\ pc["button_handler"] # "idle" ->
                        [hist EXCEPT !.touched = @ \cup {b}]
                 [] OTHER -> hist
    /\ UNCHANGED <<buffer, mainpc, taken, lock, backend, now, dc, pc, stack, ready, due, bidx,
                   trigger_time, time_waited, triggered, bkind, last_triggered, scenario>>

\* A held button keeps its pin low: LevelLow is raised again after a clear.
\* The status follows the pins, so it is raised for every held button
Hold(b) ==
    /\ held[b]
    /\ ~level[b]
    /\ level' = [x \in Buttons |-> level[x] \/ held[x]]
    /\ UNCHANGED <<buffer, mainpc, taken, lock, backend, now, dc, pc, stack, ready, due, edge, held, bidx,
                   trigger_time, time_waited, triggered, bkind, last_triggered, presses, polled,
                   scenario, hist>>

\* The button goes up: the level status follows the pin, a latched edge stays
Release(b) ==
    /\ ButtonsFree
    /\ held[b]
    /\ held' = [held EXCEPT ![b] = FALSE]
    /\ level' = [level EXCEPT ![b] = FALSE]
    /\ hist' = CASE Watch("hold") ->
                        [hist EXCEPT !.pressAt[b] = NoAlarm, !.holdDisp[b] = 0,
                                     !.holdEdge[b] = FALSE, !.holdClean[b] = TRUE]
                 [] Watch("sched") /\ pc["button_handler"] # "idle" ->
                        [hist EXCEPT !.touched = @ \cup {b}]
                 [] OTHER -> hist
    /\ UNCHANGED <<buffer, mainpc, taken, lock, backend, now, dc, pc, stack, ready, due, edge, bidx,
                   trigger_time, time_waited, triggered, bkind, last_triggered, presses, polled,
                   scenario>>

----------------------------------------------------------------------------
(* The periodic tasks: ui_output / TIMER_IRQ_1 and dive_tick / TIMER_IRQ_0 *)

\* One step of a handler: move to the next label, return after the last
Advance(t) ==
    LET l == NextLabel(t, pc[t])
    IN  /\ pc' = [pc EXCEPT ![t] = l]
        /\ stack' = IF l = "idle" THEN Pop ELSE stack

\* The pending activation is dispatched
StartPeriodic(t) ==
    /\ t \in Periodic
    /\ CanStart(t)
    /\ IF Holds(t)
       THEN /\ taken' = taken \cup {t}
            /\ stack' = Append(stack, t)
            /\ pc' = [pc EXCEPT ![t] = FirstLabel(t)]
            /\ ready' = RemoveFirst(ready, t)
            /\ hist' = IF Watch("live") /\ ready[1] # t
                       THEN [hist EXCEPT !.overtook = TRUE]
                       ELSE hist
       ELSE \* `if let Some(..)` fails: the handler returns, the alarm's
            \* interrupt is not cleared
            /\ hist' = [hist EXCEPT !.emptyRun = TRUE]
            /\ UNCHANGED <<taken, stack, pc, ready>>
    /\ UNCHANGED <<buffer, mainpc, lock, backend, now, dc, due, edge, level, held, bidx,
                   trigger_time, time_waited, triggered, bkind, last_triggered, presses, polled,
                   scenario>>

\* spawn_after(interval, interval) / alarm.clear_interrupt(); alarm.schedule(..)
Rearm(t) ==
    /\ Running(t)
    /\ pc[t] = "rearm"
    /\ due' = [due EXCEPT ![t] = NextDue(t)]
    /\ hist' = CASE Watch("sched") ->
                        [hist EXCEPT !.rearms[t] = @ + 1, !.rearmAt[t] = now]
                 [] Watch("live") ->
                        [hist EXCEPT !.rearms[t] = IF @ < 2 THEN @ + 1 ELSE @]
                 [] OTHER -> hist
    /\ Advance(t)
    /\ UNCHANGED <<buffer, mainpc, taken, lock, backend, now, dc, ready, edge, level, held, bidx,
                   trigger_time, time_waited, triggered, bkind, last_triggered, presses, polled,
                   scenario>>

\* The work before the critical section (LED, buffer.clear()), then lock /
\* interrupt::free is entered
EnterCS(t) ==
    /\ Running(t)
    /\ pc[t] = "enter"
    /\ lock' = t
    /\ Advance(t)
    /\ UNCHANGED <<buffer, mainpc, taken, backend, now, dc, ready, due, edge, level, held, bidx,
                   trigger_time, time_waited, triggered, bkind, last_triggered, presses, polled,
                   scenario, hist>>

\* Inside the critical section: dive_tick runs change_depth, ui_output formats
\* the DiveComputer into its buffer; the critical section is left
Access(t) ==
    /\ Running(t)
    /\ pc[t] = "cs"
    /\ dc' = IF t = "dive_tick" THEN change_depth(dc, TickInterval) ELSE dc
    /\ buffer' = IF t = "ui_output" THEN fmt_edt(dc) ELSE buffer
    /\ lock' = Leave(t)
    /\ hist' = CASE t = "dive_tick" -> ShadowTick(hist)
                 [] t = "ui_output" -> [hist EXCEPT !.shown = dc.edt]
    /\ Advance(t)
    /\ UNCHANGED <<mainpc, taken, backend, now, ready, due, edge, level, held, bidx,
                   trigger_time, time_waited, triggered, bkind, last_triggered, presses, polled,
                   scenario>>

\* ui_output draws the buffer and returns
Draw(t) ==
    /\ Running(t)
    /\ pc[t] = "exit"
    /\ Advance(t)
    /\ UNCHANGED <<buffer, mainpc, taken, lock, backend, now, dc, ready, due, edge, level, held, bidx,
                   trigger_time, time_waited, triggered, bkind, last_triggered, presses, polled,
                   scenario, hist>>

----------------------------------------------------------------------------
(* The button handler: button_handler / IO_IRQ_BANK0 *)

ClearInterrupt(flags, b) == [flags EXCEPT ![b] = FALSE]

\* After the expansion of index i: the next expansion, or the end of the handler
NextButton(i) ==
    /\ bidx' = IF i < Len(ButtonOrder) THEN i + 1 ELSE i
    /\ pc' = [pc EXCEPT !["button_handler"] =
                 IF i < Len(ButtonOrder) THEN "check" ELSE "finish"]

\* The flags a step takes from set to clear
ClearedBy(e1, e2, l1, l2) ==
    {<<b, "edge">> : b \in {x \in Buttons : e1[x] /\ ~e2[x]}}
        \cup {<<b, "level">> : b \in {x \in Buttons : l1[x] /\ ~l2[x]}}

\* Entry: the timestamp is read and time_waited computed
StartButton ==
    /\ CanStart("button_handler")
    /\ IF Holds("button_handler")
       THEN /\ taken' = taken \cup {"button_handler"}
            /\ stack' = Append(stack, "button_handler")
            /\ trigger_time' = now
            /\ time_waited' = TimeWaited(now, last_triggered)
            /\ triggered' = FALSE
            /\ bidx' = 1
            /\ pc' = [pc EXCEPT !["button_handler"] = "check"]
            /\ hist' = IF Watch("sched")
                       THEN [hist EXCEPT !.entryTime = now,
                                         !.entryEdge = {b \in Buttons : edge[b]},
                                         !.entryLevel = {b \in Buttons : level[b]},
                                         !.cleared = {},
                                         !.applied = {},
                                         !.curFired = FALSE]
                       ELSE ShadowEntry([hist EXCEPT !.entryTime = now, !.curFired = FALSE])
       ELSE \* `if let Some(..)` fails: the handler returns, no status is cleared
            /\ hist' = [hist EXCEPT !.emptyRun = TRUE]
            /\ UNCHANGED <<taken, stack, trigger_time, time_waited, triggered, bidx, pc>>
    /\ UNCHANGED <<buffer, mainpc, lock, backend, now, dc, ready, due, edge, level, held,
                   bkind, last_triggered, presses, polled, scenario>>

\* The handle_button! expansions from the current one on, up to a critical
\* section: an expansion whose button has no interrupt status set does
\* nothing and is passed over; the first one that has reads it (EdgeLow, else
\* LevelLow): an accepted trigger enters the critical section, a suppressed
\* one is cleared
Check ==
    /\ Running("button_handler")
    /\ pc["button_handler"] = "check"
    /\ LET cands == {i \in bidx..Len(ButtonOrder) : KindSeen(ButtonOrder[i]) # "none"}
       IN  IF cands = {}
           THEN /\ pc' = [pc EXCEPT !["button_handler"] = "finish"]
                /\ UNCHANGED <<bidx, bkind, edge, level, lock, hist>>
           ELSE LET i == CHOOSE j \in cands : \A m \in cands : j <= m
                    b == ButtonOrder[i]
                    k == KindSeen(b)
                    o == [b |-> b, kind |-> k,
                          waited |-> trigger_time - last_triggered, fired |-> FALSE]
                    e == [b |-> b, t |-> trigger_time, fired |-> FALSE,
                          last |-> hist.lastFire, own |-> hist.own[b]]
                    lg == IF k = "edge" THEN Append(hist.log, e) ELSE hist.log
                IN  IF Accepts(k, time_waited)
                    THEN /\ pc' = [pc EXCEPT !["button_handler"] = "cs"]
                         /\ bidx' = i
                         /\ bkind' = k
                         /\ lock' = "button_handler"
                         /\ UNCHANGED <<edge, level>>
                         /\ hist' = IF Watch("edges")
                                    THEN [hist EXCEPT !.log = lg]
                                    ELSE [hist EXCEPT !.obs = o]
                    ELSE /\ edge' = IF k = "edge" THEN ClearInterrupt(edge, b) ELSE edge
                         /\ level' = IF k = "level" THEN ClearInterrupt(level, b) ELSE level
                         /\ NextButton(i)
                         /\ UNCHANGED <<bkind, lock>>
                         /\ hist' = CASE Watch("edges") ->
                                           ShadowTrigger([hist EXCEPT !.log = lg], b, k)
                                      [] Watch("hold") -> [hist EXCEPT !.obs = o]
                                      [] OTHER ->
                                           [hist EXCEPT !.obs = o,
                                               !.cleared = @ \cup ClearedBy(edge, edge', level, level')]
    /\ UNCHANGED <<buffer, mainpc, taken, backend, now, dc, stack, ready, due, held,
                   trigger_time, time_waited, triggered, last_triggered, presses, polled, scenario>>

\* The critical section of an expansion: the bound command runs, the critical
\* section is left, triggered is set and the evaluated flag cleared
Apply ==
    /\ Running("button_handler")
    /\ pc["button_handler"] = "cs"
    /\ LET b == ButtonOrder[bidx]
       IN  /\ dc' = Command(b, dc)
           /\ edge' = IF bkind = "edge" THEN ClearInterrupt(edge, b) ELSE edge
           /\ level' = IF bkind = "level" THEN ClearInterrupt(level, b) ELSE level
           /\ hist' = CASE Watch("edges") ->
                             ShadowTrigger(
                                 [hist EXCEPT
                                     !.log = IF bkind = "edge"
                                             THEN [@ EXCEPT ![Len(@)].fired = TRUE] ELSE @,
                                     !.curFired = TRUE,
                                     !.own[b] = trigger_time], b, bkind)
                        [] Watch("sched") ->
                             [hist EXCEPT
                                 !.obs.fired = TRUE,
                                 !.curFired = TRUE,
                                 !.twice = @ \/ b \in hist.applied,
                                 !.applied = @ \cup {b},
                                 !.cleared = @ \cup ClearedBy(edge, edge', level, level')]
                        [] Watch("hold") ->
                             [hist EXCEPT
                                 !.obs.fired = TRUE,
                                 !.curFired = TRUE,
                                 !.holdDisp[b] =
                                     IF /\ hist.pressAt[b] # NoAlarm
                                        /\ trigger_time <= hist.pressAt[b] + 3 * REPEAT_TIME
                                     THEN @ + 1 ELSE @,
                                 !.holdEdge[b] = @ \/ bkind = "edge",
                                 !.holdClean = [x \in Buttons |-> @[x] /\ (x = b \/ ~held[x])]]
                        [] OTHER -> [hist EXCEPT !.curFired = TRUE]
    /\ triggered' = TRUE
    /\ bkind' = "none"
    /\ lock' = Leave("button_handler")
    /\ NextButton(bidx)
    /\ UNCHANGED <<buffer, mainpc, taken, backend, now, stack, ready, due, held,
                   trigger_time, time_waited, last_triggered, presses, polled, scenario>>

\* if triggered { last_triggered = trigger_time }, and the handler returns
Finish ==
    /\ Running("button_handler")
    /\ pc["button_handler"] = "finish"
    /\ last_triggered' = NewLastTriggered(triggered, trigger_time, last_triggered)
    /\ pc' = [pc EXCEPT !["button_handler"] = "idle"]
    /\ stack' = Pop
    /\ bidx' = 0
    /\ trigger_time' = 0
    /\ time_waited' = 0
    /\ triggered' = FALSE
    /\ polled' = TRUE
    /\ hist' = [ShadowFinish(hist) EXCEPT !.obs = NoObs,
                             !.lastFire = IF hist.curFired THEN hist.entryTime ELSE @,
                             !.curFired = FALSE,
                             !.entryTime = 0,
                             !.entryEdge = {},
                             !.entryLevel = {},
                             !.cleared = {},
                             !.applied = {},
                             !.touched = {}]
    /\ UNCHANGED <<buffer, mainpc, taken, lock, backend, now, dc, ready, due, edge, level, held,
                   bkind, presses, scenario>>

----------------------------------------------------------------------------
(* The "dive" environment: one DiveComputer operation per step *)

Halted == \E h \in Handlers : pc[h] = "panic"

\* The operation op is called on dc and returns
Call(op, arg) ==
    /\ Watch("dive")
    /\ ~Halted
    /\ presses < PressBound
    /\ presses' = presses + 1
    /\ dc' = Operation(op, arg, dc)
    /\ hist' = [hist EXCEPT !.op = op, !.arg = arg, !.pre = dc]
    /\ UNCHANGED <<buffer, mainpc, taken, lock, backend, now, pc, stack, ready, due, edge, level, held, bidx,
                   trigger_time, time_waited, triggered, bkind, last_triggered,
                   polled, scenario>>

DoFillAir == Call("fill_air", 0)

DoIncreaseRate == Call("increase_rate", 0)

DoDecreaseRate == Call("decrease_rate", 0)

DoToggleUnit == Call("toggle_unit", 0)

\* change_depth returns; where the i32 sum overflows this is the build
\* without overflow checks
DoChangeDepth(i) ==
    /\ ~divides_by_zero(i)
    /\ Call("change_depth", i)

\* change_depth panics on a division by zero, and on the overflow of the i32
\* sum in a build with overflow checks: the handler stops there and with it
\* the program
PanicChangeDepth(i) ==
    /\ Watch("dive")
    /\ ~Halted
    /\ presses < PressBound
    /\ IF divides_by_zero(i) THEN TRUE ELSE depth_overflows(dc, i)
    /\ presses' = presses + 1
    /\ pc' = [pc EXCEPT !["dive_tick"] = "panic"]
    /\ hist' = [hist EXCEPT !.op = "panic", !.arg = i, !.pre = dc]
    /\ UNCHANGED <<buffer, mainpc, taken, lock, backend, now, dc, stack, ready, due, edge, level, held, bidx,
                   trigger_time, time_waited, triggered, bkind, last_triggered,
                   polled, scenario>>

NextDive ==
    \/ DoFillAir
    \/ DoIncreaseRate
    \/ DoDecreaseRate
    \/ DoToggleUnit
    \/ \E i \in Intervals : DoChangeDepth(i)
    \/ \E i \in Intervals : PanicChangeDepth(i)

----------------------------------------------------------------------------
(* The "render" environment: a dive with change_depth called once a second,
   and the text written from the DiveComputer at any point of it *)

\* change_depth(1 s) is called and returns
SecondPasses ==
    /\ Watch("render")
    /\ presses < PressBound
    /\ presses' = presses + 1
    /\ dc' = change_depth(dc, 1000000)
    /\ hist' = [hist EXCEPT !.op = "change_depth", !.arg = 1000000, !.pre = dc]
    /\ UNCHANGED <<buffer, mainpc, taken, lock, backend, now, pc, stack, ready, due, edge,
                   level, held, bidx, trigger_time, time_waited, triggered, bkind,
                   last_triggered, polled, scenario>>

\* buffer.clear(); writeln!(buffer, "{}", dive_computer)
Render ==
    /\ Watch("render")
    /\ buffer' = fmt_edt(dc)
    /\ hist' = [hist EXCEPT !.shown = dc.edt]
    /\ UNCHANGED <<mainpc, taken, lock, backend, now, dc, pc, stack, ready, due, edge,
                   level, held, bidx, trigger_time, time_waited, triggered, bkind,
                   last_triggered, presses, polled, scenario>>

NextRender ==
    \/ SecondPasses
    \/ Render

----------------------------------------------------------------------------
(* interrupts.rs main *)

\* The next step of main's start-up; main runs while no handler is active
MainStep ==
    /\ ~AtWfi
    /\ stack = <<>>
    /\ mainpc' = mainpc + 1
    /\ UNCHANGED <<buffer, taken, lock, backend, now, dc, pc, stack, ready, due, edge, level,
                   held, bidx, trigger_time, time_waited, triggered, bkind,
                   last_triggered, presses, polled, scenario, hist>>

----------------------------------------------------------------------------

Next ==
    \/ Tick
    \/ \E t \in Periodic : AlarmFires(t)
    \/ \E b \in Buttons : Press(b)
    \/ \E b \in Buttons : Hold(b)
    \/ \E b \in Buttons : Release(b)
    \/ \E t \in Periodic : StartPeriodic(t)
    \/ \E t \in Periodic : Rearm(t)
    \/ \E t \in Periodic : EnterCS(t)
    \/ \E t \in Periodic : Access(t)
    \/ \E t \in Periodic : Draw(t)
    \/ StartButton
    \/ Check
    \/ Apply
    \/ Finish

\* The scheduler under contention: drawing may take time
Spec == Init /\ [][Next]_vars

\* The button filter over several presses
SpecEdges == InitEdges /\ [][Next]_vars

\* The button filter over a long hold
SpecHold == InitHold /\ [][Next]_vars

\* The handlers without end.  The counter always advances; an expiry reached
\* is raised, a held pin keeps its level status asserted, and the processor
\* executes the handler that is running
Fairness ==
    /\ SF_vars(Tick)
    /\ \A t \in Periodic :
           /\ WF_vars(AlarmFires(t))
           /\ WF_vars(StartPeriodic(t))
           /\ WF_vars(Rearm(t))
           /\ WF_vars(EnterCS(t))
           /\ WF_vars(Access(t))
           /\ WF_vars(Draw(t))
    /\ \A b \in Buttons : WF_vars(Hold(b))
    /\ WF_vars(StartButton)
    /\ WF_vars(Check)
    /\ WF_vars(Apply)
    /\ WF_vars(Finish)

SpecLive == InitLive /\ [][Next]_vars /\ Fairness

NextBoot ==
    \/ MainStep
    \/ Next

\* interrupts.rs from the critical section of main on
SpecBoot == InitBoot /\ [][NextBoot]_vars

\* The button filter while the low word of the counter wraps around
SpecWrap == InitWrap /\ [][Next]_vars

\* The text of the screen during a dive
SpecRender == InitRender /\ [][NextRender]_vars

\* The DiveComputer on its own
SpecDive == InitDive /\ [][NextDive]_vars

----------------------------------------------------------------------------
(* Properties: scheduling and shared state *)

InCS(h) == pc[h] = "cs"

\* C1: at most one handler is inside a critical section on the DiveComputer
\* at any time, and the handler inside one is the running handler: it is not
\* preempted before it leaves the critical section
MutualExclusion ==
    /\ Cardinality({h \in Handlers : InCS(h)}) <= 1
    /\ \A h \in Handlers : InCS(h) => Running(h)

\* The button handler holds the DiveComputer while a periodic activation is
\* pending and has to wait
MutualExclusionContended ==
    /\ backend = "rtic"
    /\ InCS("button_handler")
    /\ ready # <<>>

\* C2, as stated: the button interrupt is the highest-priority handler, so no
\* periodic task ever runs on top of (preempts) a running button handler
ButtonNeverPreempted ==
    \A i, j \in DOMAIN stack :
        i < j => ~(stack[i] = "button_handler" /\ stack[j] \in Periodic)

\* C2, amended: the periodic tasks are above the button handler in rtic.rs.
\* The button handler never preempts a running periodic task (it is only ever
\* at the bottom of the stack), a periodic task preempts it only outside its
\* critical section, the periodic tasks do not preempt each other, and in
\* interrupts.rs no handler preempts another
PeriodicAboveButton ==
    /\ \A i \in DOMAIN stack : stack[i] = "button_handler" => i = 1
    /\ Cardinality({i \in DOMAIN stack : stack[i] \in Periodic}) <= 1
    /\ Len(stack) > 1 => ~InCS("button_handler")
    /\ backend = "irq" => Len(stack) <= 1

\* A periodic task runs on top of the button handler it preempted
ButtonPreempted ==
    /\ backend = "rtic"
    /\ Len(stack) = 2
    /\ stack[1] = "button_handler"
    /\ stack[2] \in Periodic
    /\ pc["button_handler"] \in {"check", "finish"}

\* C9: a periodic task that has reached its critical section, or the work
\* around it, has already scheduled its next activation: the next expiry is
\* armed, or has expired and is pending
RearmedFirst ==
    \A t \in Periodic :
        pc[t] \in {"enter", "cs", "exit"} => due[t] # NoAlarm \/ t \in Range(ready)

\* The logic tick is in its critical section with its next expiry armed
RearmedInCS ==
    /\ InCS("dive_tick")
    /\ due["dive_tick"] = now + Period("dive_tick")

\* C10, as stated: the due times of a periodic task are first due + n * period
\* (the first activation is due at 0), whatever the lateness of an activation
DriftFree ==
    \A t \in Periodic :
        due[t] # NoAlarm => due[t] = hist.rearms[t] * Period(t)

\* C10, amended: the next due time is the counter value at the re-arm of the
\* current activation plus the period; the re-arm is not before the
\* activation's own due time, so a due time is never before first due +
\* n * period and the lateness of every activation is carried forward
DueFromRearm ==
    \A t \in Periodic :
        due[t] # NoAlarm =>
            /\ due[t] = hist.rearmAt[t] + Period(t)
            /\ hist.rearmAt[t] >= hist.dueOf[t]
            /\ due[t] >= hist.rearms[t] * Period(t)

\* The logic tick started late, behind the drawing of the screen, and its
\* next due time is late by as much
DueDrifted ==
    /\ due["dive_tick"] # NoAlarm
    /\ hist.rearms["dive_tick"] = 1
    /\ due["dive_tick"] = Period("dive_tick") + TimeStep

----------------------------------------------------------------------------
(* Properties: the button filter within one invocation *)

Settled == pc["button_handler"] # "cs"

\* C3, as stated: an edge trigger is dispatched iff at least the debounce
\* window has passed since the last trigger, the window itself included
EdgeAtWindowDispatched ==
    Settled /\ hist.obs.kind = "edge" =>
        (hist.obs.fired <=> hist.obs.waited >= DEBOUNCE_TIME)

\* C3, amended: an edge trigger is dispatched iff more than the debounce
\* window has passed since the last trigger (at exactly the window it is
\* suppressed), and once the handler has returned last_triggered is the
\* timestamp read at the entry of the latest invocation that dispatched
EdgeDebounceRule ==
    /\ Settled /\ hist.obs.kind = "edge" =>
           (hist.obs.fired <=> hist.obs.waited > DEBOUNCE_TIME)
    /\ pc["button_handler"] = "idle" => last_triggered = hist.lastFire

\* An edge one step past the window has been dispatched and the handler has
\* returned: last_triggered is that invocation's timestamp
EdgeDispatched ==
    /\ pc["button_handler"] = "idle"
    /\ last_triggered = DEBOUNCE_TIME + TimeStep
    /\ dc # DiveComputerNew

\* C7, as stated: every trigger flag pending at the handler's entry has been
\* cleared when the handler returns
AllPendingCleared ==
    pc["button_handler"] = "finish" =>
        \A b \in Buttons \ hist.touched :
            /\ b \in hist.entryEdge => <<b, "edge">> \in hist.cleared
            /\ b \in hist.entryLevel => <<b, "level">> \in hist.cleared

\* C7, amended: an invocation evaluates one trigger kind per button, EdgeLow
\* if it is set, LevelLow otherwise.  Every EdgeLow flag pending at entry has
\* been cleared at the return, dispatched or not; a LevelLow flag pending
\* alone has been cleared; a LevelLow flag pending together with the EdgeLow
\* flag is not cleared and is still pending at the return
OneKindPerButton ==
    pc["button_handler"] = "finish" =>
        \A b \in Buttons :
            /\ b \in hist.entryEdge => <<b, "edge">> \in hist.cleared
            /\ ~(<<b, "edge">> \in hist.cleared /\ <<b, "level">> \in hist.cleared)
            /\ b \notin hist.touched =>
                   IF b \in hist.entryEdge
                   THEN b \in hist.entryLevel => level[b]
                   ELSE b \in hist.entryLevel => <<b, "level">> \in hist.cleared

\* The handler is about to return: it has cleared a button's EdgeLow and left
\* the LevelLow that was pending with it
LevelLeftPending ==
    /\ pc["button_handler"] = "finish"
    /\ \E b \in Buttons \ hist.touched :
           /\ b \in hist.entryEdge
           /\ b \in hist.entryLevel
           /\ <<b, "edge">> \in hist.cleared
           /\ level[b]

\* C8: the step that leaves the handler's critical section has applied the
\* command bound to the button of the current expansion (A fill_air,
\* B toggle_unit, X increase_rate, Y decrease_rate), and no invocation runs the
\* command of one button twice
BindingsApplied ==
    /\ [][pc["button_handler"] = "cs" /\ pc'["button_handler"] # "cs" =>
              dc' = CASE ButtonOrder[bidx] = "A" -> fill_air(dc)
                      [] ButtonOrder[bidx] = "B" -> toggle_unit(dc)
                      [] ButtonOrder[bidx] = "X" -> increase_rate(dc)
                      [] ButtonOrder[bidx] = "Y" -> decrease_rate(dc)]_vars
    /\ [](~hist.twice)

\* The command of a button whose EdgeLow and LevelLow were both pending has
\* been applied, once, and the invocation goes on
AppliedWithBothPending ==
    /\ pc["button_handler"] \in {"check", "finish"}
    /\ \E b \in hist.applied : b \in hist.entryEdge /\ b \in hist.entryLevel
    /\ "X" \in hist.applied
    /\ dc.rate = 1

----------------------------------------------------------------------------
(* Properties: the button filter over several invocations *)

\* The evaluations of hist.log whose outcome is known
Resolved == {j \in DOMAIN hist.log : j < Len(hist.log) \/ Settled}

\* Two edge evaluations of one button with none of that button in between
EdgePairs ==
    {p \in Resolved \X Resolved :
        /\ p[1] < p[2]
        /\ hist.log[p[1]].b = hist.log[p[2]].b
        /\ \A k \in (p[1] + 1)..(p[2] - 1) : hist.log[k].b # hist.log[p[1]].b}

Gap(p) == hist.log[p[2]].t - hist.log[p[1]].t

Dispatches(p) ==
    (IF hist.log[p[1]].fired THEN 1 ELSE 0) + (IF hist.log[p[2]].fired THEN 1 ELSE 0)

\* C4, as stated: whenever the first edge arrives, two edges of a button less
\* than the debounce window apart give exactly one dispatch, and two edges
\* more than the window apart give exactly two
TwoEdgesAnyTime ==
    \A p \in EdgePairs :
        /\ Gap(p) < DEBOUNCE_TIME => Dispatches(p) = 1
        /\ Gap(p) > DEBOUNCE_TIME => Dispatches(p) = 2

\* C4, amended: when the first of two edges of a button is dispatched, the
\* second is suppressed if the handler reads it at most the debounce window
\* later (one dispatch), and it is dispatched if the handler reads it more than
\* the window later and no invocation has dispatched in between (two
\* dispatches)
TwoEdgesAfterAccepted ==
    \A p \in EdgePairs :
        hist.log[p[1]].fired =>
            /\ Gap(p) <= DEBOUNCE_TIME => ~hist.log[p[2]].fired
            /\ Gap(p) > DEBOUNCE_TIME /\ hist.log[p[2]].last = hist.log[p[1]].t =>
                   hist.log[p[2]].fired

\* Two edges of one button, more than the window apart, both dispatched
TwoEdgesBothDispatched ==
    \E p \in EdgePairs :
        /\ Gap(p) > DEBOUNCE_TIME
        /\ Dispatches(p) = 2

\* C6, as stated: each button has its own last trigger time, so an edge is
\* dispatched whenever more than the debounce window has passed since the
\* latest dispatch of the same button
PerButtonDebounce ==
    \A j \in Resolved :
        hist.log[j].t - hist.log[j].own > DEBOUNCE_TIME => hist.log[j].fired

\* C6, amended: the four buttons share one last trigger time.  An edge is
\* dispatched iff the handler reads it more than the debounce window after
\* the latest earlier invocation that dispatched the command of any button;
\* so an edge read in a later invocation, at most the window after a
\* dispatched edge of another button, is suppressed
SharedDebounce ==
    /\ \A j \in Resolved :
           hist.log[j].fired <=> hist.log[j].t - hist.log[j].last > DEBOUNCE_TIME
    /\ \A i, j \in Resolved :
           /\ i < j
           /\ hist.log[i].b # hist.log[j].b
           /\ hist.log[i].fired
           /\ hist.log[j].last >= hist.log[i].t
           /\ hist.log[j].t - hist.log[i].t <= DEBOUNCE_TIME
           => ~hist.log[j].fired

\* An edge on one button is suppressed within the window after a dispatched
\* edge on another button, although the button's own latest dispatch is older
\* than the window
OtherButtonSuppressed ==
    \E i, j \in Resolved :
        /\ i < j
        /\ hist.log[i].b # hist.log[j].b
        /\ hist.log[i].fired
        /\ ~hist.log[j].fired
        /\ hist.log[j].t - hist.log[i].t <= DEBOUNCE_TIME
        /\ hist.log[j].t - hist.log[j].own > DEBOUNCE_TIME

\* The hold of button b has lasted longer than 3 * REPEAT_TIME
HoldOver(b) ==
    /\ held[b]
    /\ hist.pressAt[b] # NoAlarm
    /\ now > hist.pressAt[b] + 3 * REPEAT_TIME

\* C5, as stated: while a button is held its command is dispatched whenever at
\* least the repeat window has passed since the last trigger, the window
\* itself included, and a hold of 3 * REPEAT_TIME gives exactly 3 dispatches
RepeatAtWindow ==
    /\ Settled /\ hist.obs.kind = "level" =>
           (hist.obs.fired <=> hist.obs.waited >= REPEAT_TIME)
    /\ \A b \in Buttons : HoldOver(b) => hist.holdDisp[b] = 3

\* C5, amended: a level trigger is dispatched iff more than the repeat window
\* has passed since the last trigger (at exactly the window it is not).  A
\* hold produces at most 3 dispatches within 3 * REPEAT_TIME of the press, and
\* exactly 3, the press and two repeats, when the edge of the press was
\* dispatched and no other button was dispatched during the hold
RepeatCadence ==
    /\ Settled /\ hist.obs.kind = "level" =>
           (hist.obs.fired <=> hist.obs.waited > REPEAT_TIME)
    /\ \A b \in Buttons : hist.holdDisp[b] <= 3
    /\ \A b \in Buttons :
           HoldOver(b) /\ hist.holdEdge[b] /\ hist.holdClean[b] => hist.holdDisp[b] = 3

\* A hold that began with a dispatched edge has lasted longer than
\* 3 * REPEAT_TIME and has produced 3 dispatches
HeldThreeDispatches ==
    \E b \in Buttons :
        /\ HoldOver(b)
        /\ hist.holdEdge[b]
        /\ hist.holdClean[b]
        /\ hist.holdDisp[b] = 3

----------------------------------------------------------------------------
(* Properties: the periodic tasks run forever *)

\* The activations of task t that are outstanding: scheduled on the timer,
\* expired and pending, or running and about to re-arm
Outstanding(t) ==
    (IF due[t] # NoAlarm THEN 1 ELSE 0)
        + Cardinality({i \in DOMAIN ready : ready[i] = t})
        + (IF pc[t] = "rearm" THEN 1 ELSE 0)

\* C11: each periodic task always has exactly one outstanding activation, so
\* it is never queued twice and never lost, and with the counter advancing
\* each of the two tasks starts to execute again and again, forever
PeriodicForever ==
    /\ [](\A t \in Periodic : Outstanding(t) = 1)
    /\ \A t \in Periodic : []<>(pc[t] = "rearm")

\* The logic tick is in its critical section in its second or a later
\* activation while the screen task has run at least twice as well
PeriodicRunAgain ==
    /\ InCS("dive_tick")
    /\ hist.rearms["dive_tick"] = 2
    /\ hist.rearms["ui_output"] = 2

----------------------------------------------------------------------------
(* Properties: the DiveComputer *)

\* The latest operation applied and the state it was applied to
Ran(op) == hist.op = op

Pre == hist.pre

Least(a, b) == IF a < b THEN a ELSE b

Greatest(a, b) == IF a > b THEN a ELSE b

\* C12: in every state reached by the operations from DiveComputer::new(),
\* depth is not negative and air lies between 0 and 200000: air saturates at
\* both ends
AirDepthRange ==
    /\ dc.depth >= 0
    /\ dc.air >= 0
    /\ dc.air <= 200000

\* A tick underwater has used up a tank that held less than one tick's air
AirUsedUp ==
    /\ Ran("change_depth")
    /\ dc.depth > 0
    /\ Pre.air > 0
    /\ Pre.air < gas_rate_in_cl(dc.depth \div 1000) \div into_rate(hist.arg)
    /\ dc.air = 0

RateResetOnAscentOnly ==
    Ran("change_depth") =>
        IF dc.depth = 0 /\ Pre.rate < 0 THEN dc.rate = 0 ELSE dc.rate = Pre.rate

\* C15: decrease_rate at depth 0 changes nothing; at a depth above 0 it sets
\* the rate to the greater of rate - 1 and -50 and changes nothing else
DecreaseRateFrame ==
    Ran("decrease_rate") =>
        IF Pre.depth = 0
        THEN dc = Pre
        ELSE dc = [Pre EXCEPT !.rate = Greatest(Pre.rate - 1, 0 - 50)]

\* decrease_rate at the surface has left a descent rate of 10 as it was
DecreaseAtSurface ==
    /\ Ran("decrease_rate")
    /\ Pre.depth = 0
    /\ Pre.rate = 10
    /\ dc = Pre

\* C16: fill_air at depth 0 sets air to the lesser of air + 500 and 200000 and
\* changes nothing else, and at a depth above 0 changes nothing; from the new
\* state one call gives 5500, 390 further calls give 200000, and so do any
\* more calls after them
FillAirAtSurface ==
    /\ Ran("fill_air") =>
           IF Pre.depth = 0
           THEN dc = [Pre EXCEPT !.air = Least(Pre.air + 500, 200000)]
           ELSE dc = Pre
    /\ Repeat("fill_air", 0, 1, DiveComputerNew).air = 5500
    /\ \A n \in 391..(391 + MaxOps) :
           Repeat("fill_air", 0, n, DiveComputerNew).air = 200000

\* fill_air has cut air + 500 down to 200000
FillAirSaturated ==
    /\ Ran("fill_air")
    /\ Pre.depth = 0
    /\ Pre.air < 200000
    /\ Pre.air + 500 > 200000
    /\ dc.air = 200000

\* C17: toggle_unit swaps Metric and Imperial and leaves depth, rate, air and
\* elapsed time as they were; a second toggle_unit gives the first state back
ToggleUnitInvolution ==
    Ran("toggle_unit") =>
        /\ {dc.unit, Pre.unit} = {"Metric", "Imperial"}
        /\ [dc EXCEPT !.unit = Pre.unit] = Pre
        /\ toggle_unit(dc) = Pre

\* toggle_unit has taken an Imperial state, itself the result of toggle_unit,
\* back to Metric
ToggledBack ==
    /\ Ran("toggle_unit")
    /\ Pre.unit = "Imperial"
    /\ dc.unit = "Metric"

\* clamp(a + b, 0, i32::MAX) over the integers, for a in 0..i32::MAX
ClampedSum(a, b) ==
    IF b > 0 /\ a > I32_MAX - b THEN I32_MAX ELSE Clamp(a + b, 0, I32_MAX)

\* C18: change_depth moves depth by rate * 1000 / (60 * hz), hz = 1000 /
\* interval in ms: the new depth is clamp(depth + delta_mm, 0, i32::MAX), and
\* 10 calls of increase_rate and change_depth(500 ms) from the new state give
\* depth 83
DepthMoved ==
    /\ Ran("change_depth") =>
           dc.depth = ClampedSum(Pre.depth,
                          TruncDiv(Pre.rate * 1000, 60 * (1000 \div (hist.arg \div 1000))))
    /\ Dive(10, 1).depth = 83

\* C19: change_depth adds the interval to the elapsed time when the resulting
\* depth is above 0 and leaves it otherwise, and no other operation changes it
\* (edt is in seconds, the interval in microseconds)
ElapsedAdvances ==
    /\ Ran("change_depth") =>
           IF dc.depth > 0
           THEN dc.edt * 1000000 = Pre.edt * 1000000 + hist.arg
           ELSE dc.edt = Pre.edt
    /\ hist.op \in {"fill_air", "increase_rate", "decrease_rate", "toggle_unit"} =>
           dc.edt = Pre.edt

\* C20: change_depth with a resulting depth above 0 sets air to the greater
\* of air - gas_rate_in_cl(resulting depth in m) / hz and 0, with a resulting
\* depth of 0 it leaves air; only fill_air at depth 0 increases air
AirConsumed ==
    /\ Ran("change_depth") =>
           IF dc.depth > 0
           THEN dc.air = Greatest(Pre.air - gas_rate_in_cl(dc.depth \div 1000)
                                                \div (1000000 \div hist.arg), 0)
           ELSE dc.air = Pre.air
    /\ hist.op # "none" /\ dc.air > Pre.air => Ran("fill_air") /\ Pre.depth = 0

\* A tick has crossed a whole metre and consumed air at the new depth
AirConsumedDeeper ==
    /\ Ran("change_depth")
    /\ dc.depth \div 1000 > Pre.depth \div 1000
    /\ dc.air < Pre.air
    /\ dc.air > 0

\* The depth in whole metres, as get_alarm and change_depth take it
DepthM == dc.depth \div 1000

\* C21: the alarm is the first match of High, Medium, Low, None: High iff
\* gas_to_surface_in_cl(depth in m) > air, else Medium iff rate < -15, else
\* Low iff depth > 40000 mm, else None; a state with both the High and the
\* Medium condition reports High, and 30 m with air 500 reports High
AlarmFirstMatch ==
    /\ DepthM <= MaxDepthM =>
           LET high == gas_to_surface_in_cl(DepthM) > dc.air
               medium == dc.rate < 0 - 15
               low == dc.depth > 40000
           IN  /\ get_alarm(dc) = "High" <=> high
               /\ get_alarm(dc) = "Medium" <=> ~high /\ medium
               /\ get_alarm(dc) = "Low" <=> ~high /\ ~medium /\ low
               /\ get_alarm(dc) = "None" <=> ~high /\ ~medium /\ ~low
    /\ get_alarm([DiveComputerNew EXCEPT !.depth = 30000, !.air = 500]) = "High"

\* A state with too little air on too fast an ascent reports High
AlarmHighOverMedium ==
    /\ DepthM <= MaxDepthM
    /\ gas_to_surface_in_cl(DepthM) > dc.air
    /\ dc.rate < 0 - 15
    /\ get_alarm(dc) = "High"

\* C22: for every depth d in metres up to MaxDepthM, gas_rate_in_cl(d) =
\* (20 * (100 + 10 * d)) / 100 and gas_to_surface_in_cl(d) is the sum of
\* gas_rate_in_cl(k) * 4 over k in 0..d-1, which is 4 * (20 * d + d * (d - 1));
\* gas_rate_in_cl gives 20 at 0 and 40 at 10, gas_to_surface_in_cl 0 at 0 and
\* 1160 at 10
GasModel ==
    /\ DepthM <= MaxDepthM =>
           /\ gas_rate_in_cl(DepthM) = (20 * (100 + 10 * DepthM)) \div 100
           /\ gas_to_surface_in_cl(DepthM) = 4 * (20 * DepthM + DepthM * (DepthM - 1))
    /\ \A d \in 0..MaxDepthM :
           /\ gas_rate_in_cl(d) = (20 * (100 + 10 * d)) \div 100
           /\ gas_to_surface_in_cl(d) = 4 * (20 * d + d * (d - 1))
           /\ d > 0 => gas_to_surface_in_cl(d) =
                           gas_to_surface_in_cl(d - 1) + 4 * ((20 * (100 + 10 * (d - 1))) \div 100)
    /\ gas_rate_in_cl(0) = 20
    /\ gas_rate_in_cl(10) = 40
    /\ gas_to_surface_in_cl(0) = 0
    /\ gas_to_surface_in_cl(10) = 1160

\* The gas model has been applied at 40 m: a tick at 100 cl/s, and an alarm
\* for the 9440 cl the ascent takes
GasModelApplied ==
    /\ Ran("change_depth")
    /\ DepthM = 40
    /\ hist.arg = TIME_TICK_MS * 1000
    /\ Pre.air - dc.air = 50
    /\ gas_to_surface_in_cl(DepthM) = 9440
    /\ get_alarm(dc) = "High"

\* C23: change_depth aborts on an interval of 0 and on no other: for every
\* interval above 0, intervals above one second included, it returns a state
AbortsOnZeroOnly ==
    /\ Ran("panic") => hist.arg = 0
    /\ Ran("change_depth") => hist.arg > 0

----------------------------------------------------------------------------
(* Properties: the critical section, the backends and the counter *)

Active(h) == h \in Range(stack)

\* C24: a handler that has entered the critical section on the DiveComputer
\* has left it when it returns, whether it dispatched a command or suppressed
\* every trigger; and while the processor waits for an interrupt, no critical
\* section is held
CriticalSectionReleased ==
    /\ [](stack = <<>> => lock = "none")
    /\ [](\A h \in Handlers : lock = h => Active(h) /\ InCS(h))
    /\ [][\A h \in Handlers : Active(h) /\ ~Active(h)' => lock' # h]_vars

\* The processor waits for an interrupt after dive_tick and a button handler
\* that dispatched a command have been through their critical sections
IdleAfterCriticalSections ==
    /\ stack = <<>>
    /\ lock = "none"
    /\ hist.rearms["dive_tick"] >= 1
    /\ hist.lastFire > 0

Starts(t) == ~Active(t) /\ Active(t)'

\* C26, as stated: the two periodic tasks have equal priority, neither
\* preempts the other, and they are executed in the order in which they
\* became due
PeriodicFifo ==
    /\ [](Priority("ui_output") = Priority("dive_tick"))
    /\ [](~(Active("ui_output") /\ Active("dive_tick")))
    /\ [][\A t \in Periodic : Starts(t) => ready[1] = t]_vars

\* C26, amended: the two periodic tasks have equal priority and neither
\* preempts the other; when both are due, rtic.rs executes them in the order
\* in which they became due, and interrupts.rs executes the dive tick (the
\* lower interrupt number) first, whichever became due first
PeriodicOrder ==
    /\ [](Priority("ui_output") = Priority("dive_tick"))
    /\ [](~(Active("ui_output") /\ Active("dive_tick")))
    /\ [][\A t \in Periodic : Starts(t) =>
             IF backend = "rtic"
             THEN ready[1] = t
             ELSE t = "dive_tick" \/ "dive_tick" \notin Range(ready)]_vars

\* interrupts.rs executes the dive tick while the screen task, due before it,
\* is still waiting
DiveTickOvertook ==
    /\ backend = "irq"
    /\ hist.overtook
    /\ Active("dive_tick")
    /\ ready = <<"ui_output">>

Returns(h) == Active(h) /\ ~Active(h)'

\* C27: last_triggered changes only when an invocation of the button handler
\* that dispatched a command returns, and then to the timestamp read at its
\* entry; an invocation that dispatched none leaves last_triggered as it was,
\* and the handler changes the DiveComputer only by a dispatch
LastTriggerOnDispatchOnly ==
    [][/\ last_triggered' # last_triggered =>
              Returns("button_handler") /\ hist.curFired
       /\ Returns("button_handler") =>
              last_triggered' = IF hist.curFired THEN hist.entryTime ELSE last_triggered
       /\ Running("button_handler") /\ dc' # dc =>
              InCS("button_handler") /\ hist'.curFired]_vars

\* An invocation that suppressed an edge has returned and left last_triggered
\* at the entry time of the earlier invocation that dispatched
SuppressedLeftLastTrigger ==
    /\ stack = <<>>
    /\ last_triggered > 0
    /\ last_triggered = hist.lastFire
    /\ \E j \in DOMAIN hist.log :
           /\ ~hist.log[j].fired
           /\ hist.log[j].t > last_triggered

\* C28: the depth saturates and never wraps: change_depth adds the move to
\* the depth without overflow, so a descent never ends at a smaller depth, a
\* descent from within one move of i32::MAX ends at i32::MAX, and no call with
\* a valid interval aborts
DepthSaturates ==
    /\ Ran("change_depth") /\ Pre.rate >= 0 => dc.depth >= Pre.depth
    /\ Ran("change_depth") /\ Pre.rate > 0
           /\ Pre.depth >= I32_MAX - TruncDiv(Pre.rate * 1000, 60 * (1000000 \div hist.arg))
           => dc.depth = I32_MAX
    /\ Ran("panic") => divides_by_zero(hist.arg)

\* C25: on the same timeline of timer expiries and button events the two
\* backends accept the same commands and make the same change_depth calls, so
\* their DiveComputers agree after every event (hist.oDc is the DiveComputer
\* of the other backend, hist.oLast its last_triggered)
BackendsAgree ==
    stack = <<>> => dc = hist.oDc /\ last_triggered = hist.oLast

\* C30: an edge trigger evaluated more than the debounce window after the
\* entry of the latest invocation that dispatched is dispatched, also when the
\* low 32 bits of the counter have wrapped around in between (hist.log[j].t
\* and .last are those two times)
EdgeDispatchedAcrossWrap ==
    \A j \in Resolved :
        hist.log[j].t - hist.log[j].last > DEBOUNCE_TIME => hist.log[j].fired

\* C29: in interrupts.rs the interrupts are unmasked only after the four
\* cells have been filled, no handler runs while a cell is still empty, every
\* handler finds its resources at its first run, and the DiveComputer is there
\* whenever a handler is at its access
InitPrecedesHandlers ==
    /\ \A h \in Handlers : Unmasked(h) => AllStored
    /\ \A h \in Handlers : Active(h) => AllStored /\ h \in taken
    /\ ~hist.emptyRun
    /\ \A h \in Handlers : InCS(h) => Stored("dive_computer")

\* The three handlers of interrupts.rs have run and hold their resources, a
\* command has been dispatched, and main waits for interrupts
HandlersTookResources ==
    /\ backend = "irq"
    /\ AtWfi
    /\ taken = Handlers
    /\ stack = <<>>
    /\ dc # DiveComputerNew

----------------------------------------------------------------------------
(* Properties: a held button and the periodic tasks *)

\* A button is down and its LevelLow status is asserted
HeldAsserted == \E b \in Buttons : held[b] /\ level[b]

\* C31: while a button is held and its level status keeps the button
\* interrupt pending after every return of the handler, each activation of
\* dive_tick and of ui_output whose expiry has been reached still starts to
\* execute
HeldDoesNotStarve ==
    \A t \in Periodic :
        ((\E b \in Buttons : held[b]) /\ t \in Range(ready)) ~> (pc[t] = FirstLabel(t))

\* The logic tick executes a later activation while a button is held, the
\* button interrupt is pending again and the handler has already dispatched a
\* command of this hold
PeriodicRanDuringHold ==
    /\ HeldAsserted
    /\ InCS("dive_tick")
    /\ hist.rearms["dive_tick"] = 2
    /\ dc # DiveComputerNew
    /\ Pending("button_handler")

----------------------------------------------------------------------------
(* Properties: the rendered text *)

\* The text after "EDT: " and the places of its colons
EdtText == SubSeq(buffer, 6, Len(buffer))

Colons == {i \in DOMAIN EdtText : EdtText[i] = ":"}

FirstColon == CHOOSE i \in Colons : \A j \in Colons : i <= j

LastColon == CHOOSE i \in Colons : \A j \in Colons : i >= j

\* The three fields as written; the hours without the blanks before them
ShownHours == SelectSeq(SubSeq(EdtText, 1, FirstColon - 1), LAMBDA c : c # " ")

ShownMinutes == SubSeq(EdtText, FirstColon + 1, LastColon - 1)

ShownSeconds == SubSeq(EdtText, LastColon + 1, Len(EdtText))

DigitValue(c) == (CHOOSE k \in DOMAIN DigitChars : DigitChars[k] = c) - 1

RECURSIVE Number(_)
\* The number a text of digits is read as
Number(text) ==
    IF text = <<>>
    THEN 0
    ELSE 10 * Number(SubSeq(text, 1, Len(text) - 1)) + DigitValue(text[Len(text)])

\* C32: the EDT line written for an elapsed time shows H:MM:SS with two
\* digits of minutes within the hour (0..59), two digits of seconds within the
\* minute (0..59), and H * 3600 + MM * 60 + SS equal to the elapsed time in
\* seconds
EdtClockDecomposition ==
    buffer # <<>> =>
        /\ Cardinality(Colons) = 2
        /\ Len(ShownMinutes) = 2
        /\ Len(ShownSeconds) = 2
        /\ Number(ShownMinutes) \in 0..59
        /\ Number(ShownSeconds) \in 0..59
        /\ Number(ShownHours) * 3600 + Number(ShownMinutes) * 60 + Number(ShownSeconds)
               = hist.shown

====
